---- MODULE Spec2Model ----
(***************************************************************************)
(* Model of xpart/particles/particles.py: the Particles ensemble           *)
(* (construction, reorganize, add_particles), the kinematics update        *)
(* update_delta, the generated LocalParticle mutators and the seeding of   *)
(* the random number generator.                                            *)
(*                                                                         *)
(* An ensemble is a record holding the size variables, the scalar          *)
(* variables and one array (a sequence, index 1 = slot 0) per per-particle *)
(* variable.  Four per-particle variables are kept, in the order of        *)
(* per_particle_vars: x (a coordinate, standing for every Float64 field),  *)
(* particle_id, state and parent_particle_id.                              *)
(***************************************************************************)
EXTENDS Integers, Sequences, FiniteSets, TLC

VARIABLES
    particles,  \* the receiver ensemble (self)
    donor,      \* the ensemble handed to add_particles (part)
    api,        \* the generated LocalParticle source and its freeze_vars
    kin,        \* the longitudinal arrays of an ensemble: beta0, delta, ...
    op          \* the last operation: its name, arguments, result and error

vars == <<particles, donor, api, kin, op>>

\* ------------------------------------------------------------------ bounds
MaxCapacity == 3        \* largest _capacity of the receiver
MaxDonorCapacity == 2   \* largest _capacity of a donor
MaxParticleId == 4      \* add_particles is not taken beyond this identifier
MaxFieldValue == 2      \* a kernel leaves field values within -MaxFieldValue..MaxFieldValue
MaxKinCapacity == 2     \* largest _capacity of an ensemble whose delta is updated
MaxDeltaDen == 5        \* new_delta_value is n/d with d <= MaxDeltaDen
MaxSeed == 2            \* seeds are drawn from 1..MaxSeed

\* --------------------------------------------------------------- constants
LAST_INVALID_STATE == -999999999

UNKNOWN_COUNT == -1

per_particle_vars == <<"x", "particle_id", "state", "parent_particle_id">>

scalar_vars == <<"q0", "mass0">>

\* xo.ContextCpu, xo.ContextCupy, xo.ContextPyopencl
Contexts == {"ContextCpu", "ContextCupy", "ContextPyopencl"}

\* states of the particles an ensemble is built from: the lowest lost value,
\* lost, alive
StateVals == {LAST_INVALID_STATE + 1, 0, 1}

\* ----------------------------------------------------------------- helpers
\* vv[mask]: the values of vv where mask holds, in index order (a copy)
RECURSIVE Masked(_, _)
Masked(vv, mask) ==
    IF vv = <<>> THEN <<>>
    ELSE (IF Head(mask) THEN <<Head(vv)>> ELSE <<>>) \o Masked(Tail(vv), Tail(mask))

\* np.sum(mask)
RECURSIVE np_sum(_)
np_sum(mask) ==
    IF mask = <<>> THEN 0
    ELSE (IF Head(mask) THEN 1 ELSE 0) + np_sum(Tail(mask))

\* np.max(vv) of a non-empty array
RECURSIVE np_max(_)
np_max(vv) ==
    IF Len(vv) = 1 THEN vv[1]
    ELSE LET m == np_max(Tail(vv)) IN IF vv[1] > m THEN vv[1] ELSE m

\* np.arange(lo, hi)
arange(lo, hi) == [k \in 1..(hi - lo) |-> lo + k - 1]

Fill(n, value) == [k \in 1..n |-> value]

\* --------------------------------------------------------------- reorganize
mask_active_of(state) == [i \in 1..Len(state) |-> state[i] > 0]

\* (mutant) the lost mask without its lower limit
mask_lost_unlimited(state) == [i \in 1..Len(state) |-> state[i] < 1]

mask_lost_of(state) ==
    [i \in 1..Len(state) |-> state[i] < 1 /\ state[i] > LAST_INVALID_STATE]

\* (mutant) the alive values gathered in reverse order
gather_reversed(vv, mask_active, mask_lost) ==
    LET vv_active == Masked(vv, mask_active)
        vv_lost == Masked(vv, mask_lost)
    IN [k \in 1..Len(vv_active) |-> vv_active[Len(vv_active) + 1 - k]] \o vv_lost
         \o Fill(Len(vv) - Len(vv_active) - Len(vv_lost), LAST_INVALID_STATE)

\* the three slice assignments of the loop body, for one array vv
gather(vv, mask_active, mask_lost) ==
    LET vv_active == Masked(vv, mask_active)
        vv_lost == Masked(vv, mask_lost)
    IN vv_active \o vv_lost
         \o Fill(Len(vv) - Len(vv_active) - Len(vv_lost), LAST_INVALID_STATE)

\* hasattr(self, '_lim_arrays_name'): the attribute is a field of the record
\* only while it is set
lost_particles_are_hidden(self) ==
    /\ "_lim_arrays_name" \in DOMAIN self
    /\ self._lim_arrays_name = "_num_active_particles"

hide_lost_particles(self) ==
    [k \in DOMAIN self \cup {"_lim_arrays_name"} |->
        IF k = "_lim_arrays_name" THEN "_num_active_particles" ELSE self[k]]

\* del(self._lim_arrays_name), the attribute being set
unhide_lost_particles(self) ==
    [k \in DOMAIN self \ {"_lim_arrays_name"} |-> self[k]]

\* the number of slots of an array that getattr(self, nn) exposes: all of
\* them, or, while _lim_arrays_name is set, those of the slice [:limit] with
\* limit the size variable it names
n_exposed(self, nn) ==
    IF "_lim_arrays_name" \in DOMAIN self
    THEN LET limit == self[self._lim_arrays_name]
             ll == Len(self[nn])
         IN IF limit < 0 THEN (IF ll + limit < 0 THEN 0 ELSE ll + limit)
            ELSE IF limit > ll THEN ll ELSE limit
    ELSE Len(self[nn])

\* getattr(self, nn) of a per-particle array: a view on its exposed slots
exposed(self, nn) == SubSeq(self[nn], 1, n_exposed(self, nn))

\* the body of reorganize from the masks to the counters, on the arrays as
\* self exposes them: [self, ret]
reorganize_exposed(self) ==
    LET mask_active == mask_active_of(exposed(self, "state"))
        mask_lost == mask_lost_of(exposed(self, "state"))
        n_active == np_sum(mask_active)
        n_lost == np_sum(mask_lost)
        moved == [nn \in DOMAIN self |->
                    IF \E k \in 1..Len(per_particle_vars) : per_particle_vars[k] = nn
                    THEN gather(exposed(self, nn), mask_active, mask_lost)
                           \o SubSeq(self[nn], n_exposed(self, nn) + 1, Len(self[nn]))
                    ELSE self[nn]]
        counted == IF self.context = "ContextCpu"
                   THEN [moved EXCEPT !._num_active_particles = n_active,
                                      !._num_lost_particles = n_lost]
                   ELSE moved
    IN [self |-> counted, ret |-> <<n_active, n_lost>>]

\* (mutant) reorganize that does not suspend the hidden mode
reorganize_unsuspended(self) ==
    IF self.context = "ContextPyopencl"
    THEN [self |-> self, ret |-> <<>>, err |-> "AssertionError: masking"]
    ELSE LET done == reorganize_exposed(self)
         IN [self |-> done.self, ret |-> done.ret, err |-> ""]

\* Particles.reorganize: [self: the ensemble afterwards, ret, err]
reorganize(self) ==
    IF self.context = "ContextPyopencl"
    THEN [self |-> self, ret |-> <<>>, err |-> "AssertionError: masking"]
    ELSE
      LET restore_hidden == lost_particles_are_hidden(self)
          shown == IF restore_hidden THEN unhide_lost_particles(self) ELSE self
          done == reorganize_exposed(shown)
      IN [self |-> IF restore_hidden THEN hide_lost_particles(done.self)
                   ELSE done.self,
          ret |-> done.ret, err |-> ""]

\* ------------------------------------------------------------- construction
\* Particles.__init__ without per-particle arguments: _capacity slots, all
\* alive, identifiers 0.._capacity-1, scalars 0
default_fields(context, capacity) ==
    [context |-> context, _capacity |-> capacity,
     _num_active_particles |-> UNKNOWN_COUNT, _num_lost_particles |-> UNKNOWN_COUNT,
     q0 |-> 0, mass0 |-> 0,
     x |-> Fill(capacity, 0),
     particle_id |-> arange(0, capacity),
     state |-> Fill(capacity, 1),
     parent_particle_id |-> Fill(capacity, 0)]

\* Particles.__init__ with per-particle arguments: the supplied arrays fill
\* the first slots, the rest of every array is LAST_INVALID_STATE
supplied_fields(context, capacity, part_dict) ==
    LET ll == Len(part_dict.state)
        pad(vals) == vals \o Fill(capacity - ll, LAST_INVALID_STATE)
    IN [context |-> context, _capacity |-> capacity,
        _num_active_particles |-> UNKNOWN_COUNT, _num_lost_particles |-> UNKNOWN_COUNT,
        q0 |-> part_dict.q0, mass0 |-> part_dict.mass0,
        x |-> pad(part_dict.x),
        particle_id |-> pad(part_dict.particle_id),
        state |-> pad(part_dict.state),
        parent_particle_id |-> pad(part_dict.parent_particle_id)]

\* (mutant) the end of Particles.__init__ without the reorganize on the CPU
finish_init_unorganized(raw) ==
    [raw EXCEPT !._num_active_particles = UNKNOWN_COUNT,
                !._num_lost_particles = UNKNOWN_COUNT]

\* the end of Particles.__init__: the counters are reset, and on the CPU the
\* ensemble is reorganized
finish_init(raw) ==
    LET reset == [raw EXCEPT !._num_active_particles = UNKNOWN_COUNT,
                             !._num_lost_particles = UNKNOWN_COUNT]
    IN IF reset.context = "ContextCpu" THEN reorganize(reset).self ELSE reset

\* what the phase-space description hands over for ll particles with the
\* given states: coordinates base+1.., identifiers 0..ll-1, each its own parent
part_dict_of(states, base, scalars) ==
    [q0 |-> scalars[1], mass0 |-> scalars[2],
     x |-> [k \in 1..Len(states) |-> base + k],
     particle_id |-> arange(0, Len(states)),
     state |-> states,
     parent_particle_id |-> arange(0, Len(states))]

\* the state arrays of 1..maxlen particles with states in vals
StateArrays(maxlen, vals) == UNION {[1..n -> vals] : n \in 1..maxlen}

\* the ensembles Particles(...) builds on a context: without per-particle
\* arguments, or from the description of up to _capacity particles
Constructed(context, maxcap, vals) ==
    {finish_init(default_fields(context, c)) : c \in 1..maxcap}
    \cup UNION {
        {finish_init(supplied_fields(context, c, part_dict_of(st, 10, <<1, 1>>))) :
            st \in StateArrays(c, vals)} : c \in 1..maxcap}

NoOp == [name |-> "__init__", arg |-> <<>>, ret |-> <<>>, err |-> ""]

\* ------------------------------------------------------------ add_particles
\* np.isclose(a, b, rtol=1e-14, atol=1e-14) on the integer-valued scalars of
\* the model: |a - b| <= 1e-14 * (1 + |b|) holds of integers only when a = b
isclose(a, b) == a = b

\* (mutant) the new identifiers start at max_id
new_particle_ids_from_max(max_id, n_copy) == arange(max_id, max_id + n_copy)

\* np.arange(max_id+1, max_id+1+n_copy): the identifiers of the copies
new_particle_ids(max_id, n_copy) == arange(max_id + 1, max_id + 1 + n_copy)

\* the copy loop: the alive donor values of every array are written at
\* i_start_copy (slot index, from 0), then particle_id gets the new run
copy_in(self, part, mask_copy, i_start_copy, n_copy, max_id) ==
    LET put(vv, vv_copy) ==
            [k \in 1..Len(vv) |->
                IF k > i_start_copy /\ k <= i_start_copy + n_copy
                THEN vv_copy[k - i_start_copy] ELSE vv[k]]
        copied == [nn \in DOMAIN self |->
                      IF \E k \in 1..Len(per_particle_vars) : per_particle_vars[k] = nn
                      THEN put(self[nn], Masked(part[nn], mask_copy))
                      ELSE self[nn]]
    IN [copied EXCEPT !.particle_id =
                         put(@, new_particle_ids(max_id, n_copy))]

\* Particles.add_particles: [self: the receiver afterwards, err]
add_particles(self, part, keep_lost) ==
    IF keep_lost THEN [self |-> self, err |-> "NotImplementedError: keep_lost"]
    ELSE IF self.context = "ContextPyopencl"
    THEN [self |-> self, err |-> "AssertionError: masking"]
    ELSE
      LET mask_copy == mask_active_of(part.state)
          n_copy == np_sum(mask_copy)
          organized == reorganize(self)
          self1 == organized.self
          n_active == organized.ret[1]
          n_lost == organized.ret[2]
          i_start_copy == n_active + n_lost
          n_free == self1._capacity - n_active - n_lost
      IN IF i_start_copy = 0
         THEN \* np.max of an empty array
              [self |-> self1, err |-> "ValueError: zero-size array"]
         ELSE
           LET max_id == np_max(SubSeq(self1.particle_id, 1, i_start_copy))
           IN IF n_copy > n_free
              THEN [self |-> self1, err |-> "NotImplementedError: out of space"]
              ELSE IF \E k \in 1..Len(scalar_vars) :
                         ~isclose(self1[scalar_vars[k]], part[scalar_vars[k]])
              THEN [self |-> self1, err |-> "AssertionError: scalar_vars"]
              ELSE [self |-> reorganize(copy_in(self1, part, mask_copy,
                                                i_start_copy, n_copy, max_id)).self,
                    err |-> ""]

\* the states of a donor's slots: emptied, lost, alive
LifeVals == {LAST_INVALID_STATE, 0, 1}

\* the donors: ensembles of the receiver's context with up to
\* MaxDonorCapacity slots, whose states have been written since construction
Donors(context) ==
    {supplied_fields(context, Len(st), part_dict_of(st, 20, <<1, 1>>)) :
        st \in StateArrays(MaxDonorCapacity, LifeVals)}

NoDonor == <<>>

NoKin == <<>>

\* largest identifier among the valid slots, -1 when there is none
max_valid_id(self) ==
    LET ids == {self.particle_id[i] : i \in {k \in 1..Len(self.state) :
                                               self.state[k] > LAST_INVALID_STATE}}
    IN IF ids = {} THEN -1 ELSE CHOOSE m \in ids : \A j \in ids : j <= m

\* -------------------------------------------------- gen_local_particle_api
\* (mutant) the comparison of _str_in_list never succeeds
_str_in_list_never(string, str_list) == FALSE

_str_in_list(string, str_list) ==
    \E k \in 1..Len(str_list) : str_list[k] = string

\* the lines between the braces of LocalParticle_<kind>_<vv>: the statement,
\* between comment marks when vv is frozen
mutator_body(kind, vv, freeze_vars) ==
    (IF _str_in_list(vv, freeze_vars) THEN <<[line |-> "/* frozen variable!"]>> ELSE <<>>)
    \o <<[line |-> "statement", var |-> vv,
          assign |-> CASE kind = "add_to" -> "+="
                       [] kind = "scale" -> "*="
                       [] kind = "set" -> "=" ]>>
    \o (IF _str_in_list(vv, freeze_vars) THEN <<[line |-> "frozen variable!*/"]>> ELSE <<>>)

MutatorKinds == {"add_to", "scale", "set"}

\* gen_local_particle_api(freeze_vars=...): the mutators of the source
gen_local_particle_api(freeze_vars) ==
    [freeze_vars |-> freeze_vars,
     source |-> [kind \in MutatorKinds |->
                   [vv \in {per_particle_vars[k] : k \in 1..Len(per_particle_vars)} |->
                       mutator_body(kind, vv, freeze_vars)]]]

\* what the compiled body does to the arrays of part for part->ipart = ipart
\* (slot index, from 0): the lines inside a comment are no code
RECURSIVE run_body(_, _, _, _, _)
run_body(body, in_comment, part, ipart, value) ==
    IF body = <<>> THEN part
    ELSE LET l == Head(body)
         IN IF l.line = "/* frozen variable!"
            THEN run_body(Tail(body), TRUE, part, ipart, value)
            ELSE IF l.line = "frozen variable!*/"
            THEN run_body(Tail(body), FALSE, part, ipart, value)
            ELSE IF in_comment
            THEN run_body(Tail(body), in_comment, part, ipart, value)
            ELSE LET old == part[l.var][ipart + 1]
                     new == CASE l.assign = "+=" -> old + value
                              [] l.assign = "*=" -> old * value
                              [] l.assign = "=" -> value
                 IN run_body(Tail(body), in_comment,
                             [part EXCEPT ![l.var][ipart + 1] = new], ipart, value)

\* a kernel calls LocalParticle_<kind>_<vv>(part, value)
LocalParticle_call(source, kind, vv, part, ipart, value) ==
    run_body(source[kind][vv], FALSE, part, ipart, value)

\* ------------------------------------------------------------- kinematics
\* Float64 values are modelled as exact fractions [n, d], d > 0, in lowest
\* terms; the inputs are chosen so that every square root taken is exact.
RECURSIVE GCD(_, _)
GCD(a, b) == IF b = 0 THEN a ELSE GCD(b, a % b)

Abs(a) == IF a < 0 THEN -a ELSE a

Q(n, d) ==
    LET g == GCD(Abs(n), Abs(d))
        sgn == IF d < 0 THEN -1 ELSE 1
    IN [n |-> sgn * (n \div g), d |-> sgn * (d \div g)]

QInt(k) == [n |-> k, d |-> 1]

QAdd(a, b) == Q(a.n * b.d + b.n * a.d, a.d * b.d)

QSub(a, b) == Q(a.n * b.d - b.n * a.d, a.d * b.d)

QMul(a, b) == Q(a.n * b.n, a.d * b.d)

QDiv(a, b) == Q(a.n * b.d, a.d * b.n)

\* the largest r in lo..hi with r * r <= k
RECURSIVE ISqrtIn(_, _, _)
ISqrtIn(k, lo, hi) ==
    IF lo = hi THEN lo
    ELSE LET mid == (lo + hi + 1) \div 2
         IN IF mid * mid <= k THEN ISqrtIn(k, mid, hi) ELSE ISqrtIn(k, lo, mid - 1)

ISqrt(k) == ISqrtIn(k, 0, IF k < 40000 THEN k ELSE 40000)

IsSquare(a) ==
    /\ a.n >= 0
    /\ ISqrt(a.n) * ISqrt(a.n) = a.n
    /\ ISqrt(a.d) * ISqrt(a.d) = a.d

\* x ** 0.5 (sqrt) of a fraction that is a square
QSqrt(a) == [n |-> ISqrt(a.n), d |-> ISqrt(a.d)]

\* delta_beta0 * delta_beta0 + 2. * delta_beta0 * beta0 + 1.
radicand(beta0, new_delta_value) ==
    LET delta_beta0 == QMul(new_delta_value, beta0)
    IN QAdd(QAdd(QMul(delta_beta0, delta_beta0),
                 QMul(QMul(QInt(2), delta_beta0), beta0)),
            QInt(1))

\* the values update_delta computes for one particle
longitudinal(beta0, new_delta_value) ==
    LET ptau_beta0 == QSub(QSqrt(radicand(beta0, new_delta_value)), QInt(1))
        one_plus_delta == QAdd(QInt(1), new_delta_value)
    IN [rvv |-> QDiv(one_plus_delta, QAdd(QInt(1), ptau_beta0)),
        rpp |-> QDiv(QInt(1), one_plus_delta),
        psigma |-> QDiv(ptau_beta0, QMul(beta0, beta0))]

\* reference velocities of the particles, 0 < beta0 < 1
Beta0Vals == {Q(3, 5), Q(4, 5), Q(1, 2)}

\* the new_delta_value in (-1, 10) whose square root is exact for beta0
DeltaVals(beta0) ==
    {dl \in {Q(n, d) : n \in (1 - MaxDeltaDen)..(10 * MaxDeltaDen - 1),
                       d \in 1..MaxDeltaDen} :
        /\ dl.n > -dl.d /\ dl.n < 10 * dl.d
        /\ IsSquare(radicand(beta0, dl))}

\* DeltaVals, tabulated
ExactDeltas == [b \in Beta0Vals |-> DeltaVals(b)]

\* longitudinal, tabulated over the inputs the model draws
Longitudinal ==
    [b \in Beta0Vals |-> [dl \in ExactDeltas[b] |-> longitudinal(b, dl)]]

\* (mutant) update_delta with rvv and rpp stored in each other's array
update_delta_swapped(self, new_delta_value) ==
    LET computed == [i \in 1..Len(self.beta0) |->
                        Longitudinal[self.beta0[i]][new_delta_value[i]]]
    IN [self EXCEPT !.delta = new_delta_value,
                    !.rvv = [i \in 1..Len(self.beta0) |-> computed[i].rpp],
                    !.rpp = [i \in 1..Len(self.beta0) |-> computed[i].rvv],
                    !.psigma = [i \in 1..Len(self.beta0) |-> computed[i].psigma]]

\* (mutant) update_delta that also rescales zeta by rvv / self.rvv, as
\* add_to_energy does
update_delta_rescaling_zeta(self, new_delta_value) ==
    LET computed == [i \in 1..Len(self.beta0) |->
                        Longitudinal[self.beta0[i]][new_delta_value[i]]]
    IN [self EXCEPT !.delta = new_delta_value,
                    !.zeta = [i \in 1..Len(self.beta0) |->
                                 QMul(self.zeta[i],
                                      QDiv(computed[i].rvv, self.rvv[i]))],
                    !.rvv = [i \in 1..Len(self.beta0) |-> computed[i].rvv],
                    !.rpp = [i \in 1..Len(self.beta0) |-> computed[i].rpp],
                    !.psigma = [i \in 1..Len(self.beta0) |-> computed[i].psigma]]

\* Particles.update_delta, new_delta_value an array with a value per particle
update_delta(self, new_delta_value) ==
    LET computed == [i \in 1..Len(self.beta0) |->
                        Longitudinal[self.beta0[i]][new_delta_value[i]]]
    IN [self EXCEPT !.delta = new_delta_value,
                    !.rvv = [i \in 1..Len(self.beta0) |-> computed[i].rvv],
                    !.rpp = [i \in 1..Len(self.beta0) |-> computed[i].rpp],
                    !.psigma = [i \in 1..Len(self.beta0) |-> computed[i].psigma]]

\* the arrays new_delta_value with an exact value for every particle
RECURSIVE DeltaArrays(_)
DeltaArrays(beta0) ==
    IF beta0 = <<>> THEN {<<>>}
    ELSE {<<dl>> \o rest : dl \in ExactDeltas[Head(beta0)],
                           rest \in DeltaArrays(Tail(beta0))}

\* the longitudinal arrays of an ensemble built with delta = 0
kin_fields(beta0) ==
    [beta0 |-> beta0,
     zeta |-> [i \in 1..Len(beta0) |-> QInt(1)],
     delta |-> [i \in 1..Len(beta0) |-> QInt(0)],
     psigma |-> [i \in 1..Len(beta0) |-> QInt(0)],
     rpp |-> [i \in 1..Len(beta0) |-> QInt(1)],
     rvv |-> [i \in 1..Len(beta0) |-> QInt(1)]]

\* the generated LocalParticle_update_delta(part, new_delta_value) for
\* part->ipart = ipart: the four values go through the generated setters
LocalParticle_update_delta(freeze_vars, part, ipart, new_delta_value) ==
    LET beta0 == part.beta0[ipart + 1]
        computed == Longitudinal[beta0][new_delta_value]
        LocalParticle_set(p, vv, value) ==
            run_body(mutator_body("set", vv, freeze_vars), FALSE, p, ipart, value)
    IN LocalParticle_set(
         LocalParticle_set(
           LocalParticle_set(
             LocalParticle_set(part, "delta", new_delta_value),
             "rvv", computed.rvv),
           "rpp", computed.rpp),
         "psigma", computed.psigma)

\* ------------------------------------------------ random number generator
\* a seeds argument: None, or an array of values with an element type
None == [dtype |-> "NoneType", values |-> <<>>]

SeedVals == 1..MaxSeed

SeedDtypes == {"int64", "uint32"}

SeedArrays(maxlen) ==
    {[dtype |-> t, values |-> v] :
        t \in SeedDtypes, v \in UNION {[1..n -> SeedVals] : n \in 0..maxlen}}

\* np.array(seeds, dtype=np.uint32), on values 32 bits hold
as_uint32(seeds) == [dtype |-> "uint32", values |-> seeds.values]

\* the names the module binds at its top level
module_globals ==
    {"np", "xo", "Pyparticles", "_pkg_root", "m_p", "qe", "clight", "pmass",
     "LAST_INVALID_STATE", "size_vars", "scalar_vars", "part_energy_vars",
     "per_particle_vars", "fields", "ParticlesData", "Particles",
     "_str_in_list", "part_energy_varnames", "gen_local_particle_api",
     "_pyparticles_to_xpart_dict"}

\* the names bound inside _init_random_number_generator
rng_locals == {"self", "seeds", "context", "seeds_dev"}

\* Particles._init_random_number_generator; drawn is what np.random.randint
\* returns when seeds is None
_init_random_number_generator(self, seeds, drawn) ==
    LET capacity_owner == "particles"
        call(sd) == [kernel |-> "Particles_initialize_rand_gen",
                     seeds |-> sd, n_init |-> self._capacity]
    IN IF seeds = None
       THEN [err |-> "", kernel_calls |-> <<call(drawn)>>]
       ELSE IF capacity_owner \notin (module_globals \cup rng_locals)
       THEN [err |-> "NameError: particles", kernel_calls |-> <<>>]
       ELSE IF Len(seeds.values) # self._capacity
       THEN [err |-> "AssertionError: len(seeds)", kernel_calls |-> <<>>]
       ELSE IF seeds.dtype # "uint32"
       THEN [err |-> "", kernel_calls |-> <<call(as_uint32(seeds))>>]
       ELSE [err |-> "", kernel_calls |-> <<call(seeds)>>]

\* -------------------------------------------------------------------- Init
Init ==
    /\ particles \in UNION {Constructed(c, MaxCapacity, {0, 1}) : c \in Contexts}
    /\ donor \in Donors(particles.context)
    /\ api = gen_local_particle_api(<<>>)
    /\ kin = NoKin
    /\ op = NoOp

InitReorg ==
    /\ particles \in UNION {Constructed(c, MaxCapacity, StateVals) : c \in Contexts}
    /\ donor = NoDonor
    /\ api = gen_local_particle_api(<<>>)
    /\ kin = NoKin
    /\ op = NoOp

\* ----------------------------------------------------------------- actions
Reorganize ==
    LET r == reorganize(particles)
    IN /\ particles' = r.self
       /\ op' = [name |-> "reorganize", arg |-> <<>>, ret |-> r.ret, err |-> r.err]
       /\ UNCHANGED <<donor, api, kin>>

AddParticles ==
    \E keep_lost \in BOOLEAN :
        LET r == add_particles(particles, donor, keep_lost)
        IN /\ max_valid_id(particles) + np_sum(mask_active_of(donor.state))
                 <= MaxParticleId
           /\ particles' = r.self
           /\ op' = [name |-> "add_particles", arg |-> <<keep_lost>>,
                     ret |-> <<>>, err |-> r.err]
           /\ UNCHANGED <<donor, api, kin>>

\* a tracking kernel marks a particle lost (state 0), or a removal routine
\* empties its slot: LocalParticle_set_state, with no frozen variable
SetState ==
    \E i \in 1..particles._capacity, value \in {0, LAST_INVALID_STATE} :
        /\ particles.state[i] > value
        /\ particles' = LocalParticle_call(api.source, "set", "state",
                                            particles, i - 1, value)
        /\ op' = [name |-> "set_state", arg |-> <<>>, ret |-> <<>>, err |-> ""]
        /\ UNCHANGED <<donor, api, kin>>

Next ==
    \/ Reorganize
    \/ AddParticles
    \/ SetState

Spec == Init /\ [][Next]_vars

\* ------------------------------------------------ the generated mutators
\* the freeze_vars the source is generated with
FreezeSets == {<<>>, <<"x">>, <<"state">>, <<"particle_id", "state", "x">>}

\* the arguments of the kernel's calls
CallValues == {-1, 2}

InitApi ==
    /\ particles \in {finish_init(default_fields("ContextCpu", c)) : c \in 1..MaxCapacity}
    /\ donor = NoDonor
    /\ api \in {gen_local_particle_api(fv) : fv \in FreezeSets}
    /\ kin = NoKin
    /\ op \in {[name |-> "Particles_to_LocalParticle", arg |-> <<ipart>>,
                ret |-> <<>>, err |-> ""] : ipart \in 0..(particles._capacity - 1)}

\* the kernel calls LocalParticle_<kind>_<vv>(part, value) on its particle
Mutator(kind) ==
    \E vv \in {"x", "state"}, value \in CallValues :
        LET ipart == op.arg[1]
            called == LocalParticle_call(api.source, kind, vv, particles, ipart, value)
        IN /\ called[vv][ipart + 1] \in -MaxFieldValue..MaxFieldValue
           /\ particles' = called
           /\ op' = [name |-> "LocalParticle_" \o kind, arg |-> <<ipart, vv, value>>,
                     ret |-> <<>>, err |-> ""]
           /\ UNCHANGED <<donor, api, kin>>

LocalParticle_add_to == Mutator("add_to")

LocalParticle_scale == Mutator("scale")

LocalParticle_set == Mutator("set")

NextApi ==
    \/ LocalParticle_add_to
    \/ LocalParticle_scale
    \/ LocalParticle_set

SpecApi == InitApi /\ [][NextApi]_vars

\* ------------------------------------------------------------ update_delta
InitKin ==
    /\ \E n \in 1..MaxKinCapacity :
          /\ particles = finish_init(default_fields("ContextCpu", n))
          /\ kin \in {kin_fields(b) : b \in [1..n -> Beta0Vals]}
    /\ donor = NoDonor
    /\ api = gen_local_particle_api(<<>>)
    /\ op = NoOp

\* the ensemble is the record of all its fields, held in particles and kin
UpdateDelta ==
    \E new_delta_value \in DeltaArrays(kin.beta0) :
        \E done \in {update_delta(particles @@ kin, new_delta_value)} :
           /\ particles' = [k \in DOMAIN particles |-> done[k]]
           /\ kin' = [k \in DOMAIN kin |-> done[k]]
           /\ op' = [name |-> "update_delta", arg |-> <<new_delta_value>>,
                     ret |-> <<>>, err |-> ""]
           /\ UNCHANGED <<donor, api>>

\* a kernel calls LocalParticle_update_delta on one particle
LocalParticleUpdateDelta ==
    \E ipart \in 0..(particles._capacity - 1) :
        \E new_delta_value \in ExactDeltas[kin.beta0[ipart + 1]] :
            \E done \in {LocalParticle_update_delta(api.freeze_vars, particles @@ kin,
                                                    ipart, new_delta_value)} :
               /\ particles' = [k \in DOMAIN particles |-> done[k]]
               /\ kin' = [k \in DOMAIN kin |-> done[k]]
               /\ op' = [name |-> "LocalParticle_update_delta",
                         arg |-> <<ipart, new_delta_value>>,
                         ret |-> <<>>, err |-> ""]
               /\ UNCHANGED <<donor, api>>

NextFrame ==
    \/ UpdateDelta
    \/ LocalParticleUpdateDelta

\* ensembles of particles of two reference velocities
InitFrame ==
    /\ \E n \in 1..MaxKinCapacity :
          /\ particles = finish_init(default_fields("ContextCpu", n))
          /\ kin \in {kin_fields(b) : b \in [1..n -> {Q(3, 5), Q(1, 2)}]}
    /\ donor = NoDonor
    /\ api = gen_local_particle_api(<<>>)
    /\ op = NoOp

SpecFrame == InitFrame /\ [][NextFrame]_vars

NextKin == UpdateDelta

SpecKin == InitKin /\ [][NextKin]_vars

NextReorg ==
    \/ Reorganize
    \/ SetState

SpecReorg == InitReorg /\ [][NextReorg]_vars

\* ------------------------------------------------------ the hidden mode
HideLostParticles ==
    /\ particles' = hide_lost_particles(particles)
    /\ op' = [name |-> "hide_lost_particles", arg |-> <<>>, ret |-> <<>>, err |-> ""]
    /\ UNCHANGED <<donor, api, kin>>

\* del of an attribute that is not set raises AttributeError
UnhideLostParticles ==
    /\ particles' = IF "_lim_arrays_name" \in DOMAIN particles
                    THEN unhide_lost_particles(particles) ELSE particles
    /\ op' = [name |-> "unhide_lost_particles", arg |-> <<>>, ret |-> <<>>,
              err |-> IF "_lim_arrays_name" \in DOMAIN particles THEN ""
                      ELSE "AttributeError: _lim_arrays_name"]
    /\ UNCHANGED <<donor, api, kin>>

NextHide ==
    \/ Reorganize
    \/ SetState
    \/ HideLostParticles
    \/ UnhideLostParticles

SpecHide == InitReorg /\ [][NextHide]_vars

\* ------------------------------------------- _init_random_number_generator
InitRng ==
    /\ particles \in {finish_init(default_fields(c, n)) :
                        c \in Contexts, n \in 1..MaxCapacity}
    /\ donor = NoDonor
    /\ api = gen_local_particle_api(<<>>)
    /\ kin = NoKin
    /\ op = NoOp

InitRandomNumberGenerator ==
    \E seeds \in {None} \cup SeedArrays(MaxCapacity + 1),
       drawn \in {[dtype |-> "uint32", values |-> v] :
                     v \in [1..particles._capacity -> SeedVals]} :
        LET r == _init_random_number_generator(particles, seeds, drawn)
        IN /\ seeds # None => drawn.values = [i \in 1..particles._capacity |-> 1]
           /\ op' = [name |-> "_init_random_number_generator", arg |-> <<seeds>>,
                     ret |-> r.kernel_calls, err |-> r.err]
           /\ UNCHANGED <<particles, donor, api, kin>>

NextRng == InitRandomNumberGenerator

SpecRng == InitRng /\ [][NextRng]_vars

\* ------------------------------------------------- properties: vocabulary
Slots(self) == 1..Len(self.state)

Alive(self) == {i \in Slots(self) : self.state[i] > 0}

LostValid(self) ==
    {i \in Slots(self) : self.state[i] <= 0 /\ self.state[i] > LAST_INVALID_STATE}

\* the whole record of slot i
Rec(self, i) == [k \in 1..Len(per_particle_vars) |-> self[per_particle_vars[k]][i]]

\* rank of slot i within the set S of slots (1 = lowest)
Rank(S, i) == Cardinality({j \in S : j <= i})

\* slots 1..na alive, na+1..na+nl lost-valid, the rest invalid
Partitioned(self, na, nl) ==
    \A i \in Slots(self) :
        /\ i <= na => self.state[i] > 0
        /\ (i > na /\ i <= na + nl) =>
              (self.state[i] <= 0 /\ self.state[i] > LAST_INVALID_STATE)
        /\ i > na + nl => self.state[i] = LAST_INVALID_STATE

Reorganized == op'.name = "reorganize" /\ op'.err = ""

\* ----------------------------------------------------------------- claims
\* C1: after reorganize() returns (num_active, num_lost) on a backend that
\* masks, the first num_active slots are alive, the next num_lost are
\* lost-valid, the rest hold the sentinel, and the two counts are the numbers
\* of alive and lost-valid slots before the call.
C1_PartitionPostcondition ==
    [][Reorganized =>
          /\ Partitioned(particles', op'.ret[1], op'.ret[2])
          /\ op'.ret[1] = Cardinality(Alive(particles))
          /\ op'.ret[2] = Cardinality(LostValid(particles))]_vars

C1_Witness ==
    /\ op.name = "reorganize" /\ op.err = ""
    /\ op.ret[1] >= 1 /\ op.ret[2] >= 1
    /\ op.ret[1] + op.ret[2] < particles._capacity

\* C2: reorganize() is a stable three-way partition of whole records: the
\* k-th alive slot's record moves to slot k, the k-th lost-valid slot's record
\* to slot num_active + k, every field together.
C2_StablePartition ==
    [][Reorganized =>
          /\ \A i \in Alive(particles) :
                Rec(particles', Rank(Alive(particles), i)) = Rec(particles, i)
          /\ \A i \in LostValid(particles) :
                Rec(particles', Cardinality(Alive(particles))
                                  + Rank(LostValid(particles), i))
                  = Rec(particles, i)]_vars

\* two alive and one lost particle, the slots no longer in identifier order
C2_Witness ==
    /\ op.name = "reorganize" /\ op.err = ""
    /\ op.ret = <<2, 1>>
    /\ particles.particle_id[3] < particles.particle_id[2]

\* C3: reorganize() is idempotent: called again on the ensemble it left, it
\* returns the same counts and leaves every array as it was.
C3_Idempotent ==
    (op.name = "reorganize") =>
        LET again == reorganize(particles)
        IN /\ again.self = particles
           /\ again.ret = op.ret
           /\ again.err = op.err

C3_Witness ==
    /\ op.name = "reorganize" /\ op.err = ""
    /\ op.ret[1] >= 2 /\ op.ret[2] >= 1

\* ------------------------------------------------ properties: add_particles
\* the per-particle arrays alone
Arrays(self) == [k \in 1..Len(per_particle_vars) |-> self[per_particle_vars[k]]]

Valid(self) == {i \in Slots(self) : self.state[i] # LAST_INVALID_STATE}

FreeSlots(self) ==
    self._capacity - Cardinality(Alive(self)) - Cardinality(LostValid(self))

UniqueIds(self) ==
    \A i, j \in Valid(self) :
        i # j => self.particle_id[i] # self.particle_id[j]

\* the slot of the k-th alive particle of an ensemble
KthAlive(self, k) == CHOOSE i \in Alive(self) : Rank(Alive(self), i) = k

\* add_particles(donor) is called with keep_lost false on a backend that
\* masks, the scalar variables of donor and receiver being equal
MergeCalled ==
    /\ op'.name = "add_particles" /\ op'.arg = <<FALSE>>
    /\ particles.context # "ContextPyopencl"
    /\ particles.q0 = donor.q0 /\ particles.mass0 = donor.mass0

Merged == op'.name = "add_particles" /\ op'.err = ""

\* C4 (as claimed): when the donor has more alive particles than the receiver
\* has free slots, add_particles fails with the out-of-space error and every
\* per-particle array of the receiver is as it was before the call, whatever
\* the order of the receiver's slots.
C4_OverflowLeavesReceiverUnchanged ==
    [][(MergeCalled /\ Cardinality(Alive(donor)) > FreeSlots(particles)) =>
          /\ op'.err = "NotImplementedError: out of space"
          /\ Arrays(particles') = Arrays(particles)]_vars

\* C5: a successful add_particles gives the copied donor particles, in donor
\* order, the identifiers max+1 .. max+n_copy, max being the largest
\* identifier of a valid receiver slot before the call; no pre-existing
\* particle's identifier changes; and the identifiers of the non-sentinel
\* slots are unique in every reachable state.
C5_IdentifiersUnique ==
    /\ []UniqueIds(particles)
    /\ [][Merged =>
            LET na == Cardinality(Alive(particles))
                n_copy == Cardinality(Alive(donor))
            IN /\ \A k \in 1..n_copy :
                     /\ particles'.particle_id[na + k] = max_valid_id(particles) + k
                     /\ particles'.x[na + k] = donor.x[KthAlive(donor, k)]
               /\ \A i \in Alive(particles) :
                     particles'.particle_id[Rank(Alive(particles), i)]
                       = particles.particle_id[i]
               /\ \A i \in LostValid(particles) :
                     particles'.particle_id[na + n_copy + Rank(LostValid(particles), i)]
                       = particles.particle_id[i]]_vars

\* two donor particles were copied into a receiver holding a lost particle
C5_Witness ==
    /\ op.name = "add_particles" /\ op.err = ""
    /\ Cardinality(Alive(donor)) = 2
    /\ Cardinality(Alive(particles)) = 2
    /\ LostValid(particles) # {}

\* C6 (as claimed): whenever the donor's alive particles fit into the free
\* slots of the receiver -- a receiver without any valid particle included --
\* add_particles succeeds and leaves the receiver partitioned, its alive
\* records first in their previous order, then the donor's alive records in
\* donor order, then the lost records, the lost count unchanged.
C6_MergeSucceedsAndAppends ==
    [][(MergeCalled /\ Cardinality(Alive(donor)) <= FreeSlots(particles)) =>
          LET na == Cardinality(Alive(particles))
              nl == Cardinality(LostValid(particles))
              n_copy == Cardinality(Alive(donor))
          IN /\ op'.err = ""
             /\ Partitioned(particles', na + n_copy, nl)
             /\ \A i \in Alive(particles) :
                   Rec(particles', Rank(Alive(particles), i)) = Rec(particles, i)
             /\ \A k \in 1..n_copy :
                   /\ particles'.x[na + k] = donor.x[KthAlive(donor, k)]
                   /\ particles'.state[na + k] = donor.state[KthAlive(donor, k)]
             /\ \A i \in LostValid(particles) :
                   Rec(particles', na + n_copy + Rank(LostValid(particles), i))
                     = Rec(particles, i)]_vars

\* C9: an ensemble fresh from construction on the CPU is partitioned and its
\* two counters are the numbers of alive and lost-valid slots; on every other
\* backend the counters are -1 after construction and after every later
\* reorganize() and add_particles().
C9_CountersAfterConstruction ==
    /\ (op.name = "__init__" /\ particles.context = "ContextCpu") =>
          /\ Partitioned(particles, particles._num_active_particles,
                         particles._num_lost_particles)
          /\ particles._num_active_particles = Cardinality(Alive(particles))
          /\ particles._num_lost_particles = Cardinality(LostValid(particles))
    /\ particles.context # "ContextCpu" =>
          /\ particles._num_active_particles = UNKNOWN_COUNT
          /\ particles._num_lost_particles = UNKNOWN_COUNT

\* a merge has succeeded on a backend that is not the CPU
C9_Witness ==
    /\ particles.context = "ContextCupy"
    /\ op.name = "add_particles" /\ op.err = ""
    /\ Cardinality(Alive(donor)) >= 1

\* ------------------------------------------------------ properties: api
MutatorCalled(kind) == op'.name = "LocalParticle_" \o kind

\* C7: with the source generated for freeze_vars F, the three mutators of a
\* field of F can be called and leave the field's value at the particle's
\* slot as it was, for every argument; those of any other field assign, add
\* and multiply.
C7_FrozenMutatorsAreInert ==
    [][\A kind \in MutatorKinds :
          MutatorCalled(kind) =>
             LET ipart == op'.arg[1]
                 vv == op'.arg[2]
                 value == op'.arg[3]
                 old == particles[vv][ipart + 1]
                 new == particles'[vv][ipart + 1]
             IN /\ op'.err = ""
                /\ (\E k \in 1..Len(api.freeze_vars) : api.freeze_vars[k] = vv)
                      => new = old
                /\ (\A k \in 1..Len(api.freeze_vars) : api.freeze_vars[k] # vv)
                      => /\ kind = "set" => new = value
                         /\ kind = "add_to" => new = old + value
                         /\ kind = "scale" => new = old * value]_vars

\* the setter of the frozen state was called with a value the slot does not hold
C7_Witness ==
    /\ op.name = "LocalParticle_set"
    /\ op.arg[2] = "state"
    /\ \E k \in 1..Len(api.freeze_vars) : api.freeze_vars[k] = "state"
    /\ particles.state[op.arg[1] + 1] # op.arg[3]

\* ----------------------------------------------- properties: update_delta
\* |a - 1| <= 1e-12 for a fraction a: the difference n/d is 0, or d/|n| is
\* at least 10^12 (taken in two steps of 10^6)
WithinTolOfOne(a) ==
    LET diff == QSub(a, QInt(1))
    IN diff.n = 0 \/ ((diff.d \div Abs(diff.n)) \div 1000000) >= 1000000

DeltaUpdated == op.name = "update_delta"

\* C8 (as claimed): after update_delta(delta), delta reads back as given and
\* rvv * rpp * (1 + delta) is 1 within 1e-12.
C8_RvvRppProductIsOne ==
    DeltaUpdated =>
        \A i \in 1..Len(kin.beta0) :
            /\ kin.delta[i] = op.arg[1][i]
            /\ WithinTolOfOne(QMul(QMul(kin.rvv[i], kin.rpp[i]),
                                   QAdd(QInt(1), kin.delta[i])))

\* C8 (amended): after update_delta(delta), delta reads back as given and
\* rpp * (1 + delta) is 1 within 1e-12.
C8_RppInvertsOnePlusDelta ==
    DeltaUpdated =>
        \A i \in 1..Len(kin.beta0) :
            /\ kin.delta[i] = op.arg[1][i]
            /\ WithinTolOfOne(QMul(kin.rpp[i], QAdd(QInt(1), kin.delta[i])))

\* delta was updated to a value other than 0, for two particles of different beta0
C8_Witness ==
    /\ DeltaUpdated
    /\ Len(kin.beta0) = 2
    /\ kin.beta0[1] # kin.beta0[2]
    /\ \A i \in 1..2 : kin.delta[i] # QInt(0)

RngSeeded == op.name = "_init_random_number_generator" /\ op.arg[1] # None

\* C10 (as claimed): _init_random_number_generator with an explicit seeds
\* array succeeds when len(seeds) equals the capacity, handing the seeds as
\* 32-bit unsigned to the initialization kernel, invoked once with n_init the
\* capacity; with any other length it fails with the length error and the
\* kernel is not invoked.
C10_ExplicitSeedsSeedTheGenerator ==
    RngSeeded =>
        IF Len(op.arg[1].values) = particles._capacity
        THEN /\ op.err = ""
             /\ op.ret = <<[kernel |-> "Particles_initialize_rand_gen",
                            seeds |-> [dtype |-> "uint32",
                                       values |-> op.arg[1].values],
                            n_init |-> particles._capacity]>>
        ELSE /\ op.err = "AssertionError: len(seeds)"
             /\ op.ret = <<>>

\* ------------------------------------------------ properties: hidden mode
\* the ensemble with the hidden mode not set
mode_not_set(self) ==
    IF "_lim_arrays_name" \in DOMAIN self THEN unhide_lost_particles(self) ELSE self

\* C11: reorganize() leaves lost_particles_are_hidden as it was before the
\* call, and its result -- the arrays it leaves and the counts it returns --
\* is that of the same ensemble with the mode not set.
C11_HiddenModePreserved ==
    [][op'.name = "reorganize" =>
          /\ lost_particles_are_hidden(particles')
               = lost_particles_are_hidden(particles)
          /\ LET plain == reorganize(mode_not_set(particles))
             IN /\ op'.err = plain.err
                /\ op'.ret = plain.ret
                /\ mode_not_set(particles') = plain.self]_vars

\* reorganize has moved a lost particle behind the alive ones while the lost
\* particles were hidden
C11_Witness ==
    /\ op.name = "reorganize" /\ op.err = ""
    /\ lost_particles_are_hidden(particles)
    /\ op.ret[1] >= 1 /\ op.ret[2] >= 1
    /\ particles.particle_id[op.ret[1] + 1] < particles.particle_id[op.ret[1]]

\* ------------------------------------------ properties: update_delta frame
LongitudinalWritten == {"delta", "rvv", "rpp", "psigma"}

\* between two states of the longitudinal arrays, only those of
\* LongitudinalWritten differ, and only at the slots of targets
OnlyLongitudinalWritten(before, after, targets) ==
    /\ DOMAIN after = DOMAIN before
    /\ \A k \in DOMAIN before \ LongitudinalWritten : after[k] = before[k]
    /\ \A k \in LongitudinalWritten :
          /\ Len(after[k]) = Len(before[k])
          /\ \A i \in 1..Len(before[k]) :
                i \notin targets => after[k][i] = before[k][i]

\* C12: update_delta, of the ensemble or of one particle in a kernel, writes
\* only delta, rvv, rpp and psigma, and only at the targeted slots: zeta,
\* every other per-particle array, the scalar variables and the size
\* variables are as before.
C12_UpdateDeltaFrame ==
    [][/\ op'.name = "update_delta" =>
             /\ particles' = particles
             /\ OnlyLongitudinalWritten(kin, kin', 1..particles._capacity)
       /\ op'.name = "LocalParticle_update_delta" =>
             /\ particles' = particles
             /\ OnlyLongitudinalWritten(kin, kin', {op'.arg[1] + 1})]_vars

\* a kernel has updated the delta of one particle while the other particle
\* holds a delta of its own
C12_Witness ==
    /\ op.name = "LocalParticle_update_delta"
    /\ particles._capacity = 2
    /\ kin.delta[op.arg[1] + 1] = op.arg[2]
    /\ \A i \in 1..2 : kin.delta[i] # QInt(0)
    /\ kin.delta[1] # kin.delta[2]

\* ------------------------------------- properties: add_particles validation
ScalarsDiffer ==
    \E k \in 1..Len(scalar_vars) : particles[scalar_vars[k]] # donor[scalar_vars[k]]

\* C13 (as claimed): add_particles with keep_lost true fails with the
\* not-implemented error, and add_particles of a donor whose q0 or mass0
\* differs from the receiver's -- on a backend that masks, the donor's alive
\* particles fitting into the free slots of a receiver that holds a valid
\* particle -- fails with the scalar-variables error; in both cases every
\* per-particle array of the receiver is as it was before the call and the
\* donor is unchanged.
C13_ValidatesBeforeWriting ==
    [][op'.name = "add_particles" =>
          /\ op'.arg = <<TRUE>> =>
                /\ op'.err = "NotImplementedError: keep_lost"
                /\ Arrays(particles') = Arrays(particles)
                /\ donor' = donor
          /\ (/\ op'.arg = <<FALSE>>
              /\ ScalarsDiffer
              /\ particles.context # "ContextPyopencl"
              /\ Valid(particles) # {}
              /\ Cardinality(Alive(donor)) <= FreeSlots(particles)) =>
                /\ op'.err = "AssertionError: scalar_vars"
                /\ Arrays(particles') = Arrays(particles)
                /\ donor' = donor]_vars

====
